---- MODULE Spec2Model ----
(***************************************************************************)
(* LyriLearn: the alignment grouping of api/align.py (align_tokens and     *)
(* _first_present) and the line translation of api/main.py                 *)
(* (translate_lines and the pairing of get_lyrics_with_translation).       *)
(*                                                                         *)
(* Python values are modelled as follows.  A list is a sequence.  A dict   *)
(* is the sequence of its entries in insertion order, which is the order   *)
(* Python iterates it in.  A set is a set.  A token is opaque: only the    *)
(* number of tokens is read by the code, so every token is "w".  Indices   *)
(* keep Python's values (0-based).  A node of the link graph is the tuple  *)
(* <<side, idx>> with side "l2" (source, A) or "l1" (target, B).           *)
(***************************************************************************)
EXTENDS Integers, Sequences, FiniteSets

VARIABLES
    pc,          \* position in align_tokens
    outcome,     \* "running", "returned" or "raised"
    src_tokens,  \* argument
    tgt_tokens,  \* argument
    al,          \* the aligner's answer: dict method -> links
    pairs,       \* the selected links, in iteration order
    n,           \* number of links consumed by the loop of lines 51-53
    g,           \* adjacency dict: node -> set of neighbour nodes
    seen,        \* set of visited nodes
    groups,      \* list of groups built so far
    k,           \* number of keys consumed by the loop of lines 58-71
    linked_l2,   \* line 74
    linked_l1,   \* line 75
    i,           \* loop variable of line 76
    j,           \* loop variable of line 79
    result,      \* the returned list
    tpc,         \* position in get_lyrics_with_translation / translate_lines
    texts,       \* the lyric lines handed to translate_lines
    res_text,    \* res.text, the translation service's answer
    out,         \* the list translate_lines returns
    l1           \* per lyric line: the translation assigned, or None

alignVars == <<pc, outcome, src_tokens, tgt_tokens, al, pairs, n, g, seen,
               groups, k, linked_l2, linked_l1, i, j, result>>
transVars == <<tpc, texts, res_text, out, l1>>
vars == <<pc, outcome, src_tokens, tgt_tokens, al, pairs, n, g, seen,
          groups, k, linked_l2, linked_l1, i, j, result,
          tpc, texts, res_text, out, l1>>

----------------------------------------------------------------------------
(* Bounds of the model.                                                    *)

\* Longest token sequence on either side.
MaxLen == 2
\* Most links in the answer of an aligner that answers under one method.
MaxLinks == 3
\* Most methods in an aligner answer.
MaxMethods == 2
\* Most links in an answer of an aligner that breaks the index contract.
MaxBadLinks == 2
\* Most lyric lines handed to translate_lines.
MaxLines == 3
\* Most characters in the translation service's answer.
MaxText == 4

----------------------------------------------------------------------------
(* Helpers for Python values.                                              *)

Min(S) == CHOOSE x \in S : \A y \in S : x <= y

Range(s) == {s[p] : p \in 1..Len(s)}

\* Mutant of sorted: the elements of S as a set happens to hold them, here
\* from the largest down.
RECURSIVE unsorted(_)
unsorted(S) ==
    IF S = {} THEN <<>>
    ELSE LET m == CHOOSE x \in S : \A y \in S : y <= x
         IN  <<m>> \o unsorted(S \ {m})

\* sorted(S) for a set of integers: ascending, by selection of the minimum.
RECURSIVE sorted(_)
sorted(S) ==
    IF S = {} THEN <<>>
    ELSE LET m == Min(S) IN <<m>> \o sorted(S \ {m})

\* k in d
DictHas(d, key) == \E p \in 1..Len(d) : d[p].k = key

\* d[k], for a key of d
DictGet(d, key) == d[CHOOSE p \in 1..Len(d) : d[p].k = key].v

\* list(d.keys())
DictKeys(d) == [p \in 1..Len(d) |-> d[p].k]

----------------------------------------------------------------------------
(* api/align.py                                                            *)

PREFERENCE == <<"itermax", "mwmf", "inter">>

\* Mutant of first_present: the first loop returns the value of the first of
\* keys that is in d, empty or not.
first_present_any_value(d, keys) ==
    LET hits == {p \in 1..Len(keys) : DictHas(d, keys[p])}
        any  == {p \in 1..Len(d) : d[p].v # <<>>}
    IN  IF hits # {} THEN DictGet(d, keys[Min(hits)])
        ELSE IF any # {} THEN d[Min(any)].v
        ELSE <<>>

\* _first_present(d, keys): the value of the first of keys that is in d with
\* a truthy (non-empty) value; else the first truthy value of d in d's own
\* order; else the empty set.
first_present(d, keys) ==
    LET hits == {p \in 1..Len(keys) :
                    DictHas(d, keys[p]) /\ DictGet(d, keys[p]) # <<>>}
        any  == {p \in 1..Len(d) : d[p].v # <<>>}
    IN  IF hits # {} THEN DictGet(d, keys[Min(hits)])
        ELSE IF any # {} THEN d[Min(any)].v
        ELSE <<>>

\* Mutant of DictAdd: the entry of a key already in d is taken out and put
\* back last.
DictAddMoveToEnd(d, a, b) ==
    IF DictHas(d, a)
    THEN Append(SelectSeq(d, LAMBDA e : e.k # a),
                [k |-> a, v |-> DictGet(d, a) \cup {b}])
    ELSE Append(d, [k |-> a, v |-> {b}])

\* g[a].add(b) on the defaultdict(set) g: a missing key is inserted last.
DictAdd(d, a, b) ==
    IF DictHas(d, a)
    THEN [p \in 1..Len(d) |->
            IF d[p].k = a THEN [k |-> a, v |-> d[p].v \cup {b}] ELSE d[p]]
    ELSE Append(d, [k |-> a, v |-> {b}])

\* Mutant of AddLink: line 53, the edge back from the l1 node, is missing.
AddLinkOneWay(d, link) ==
    LET a == <<"l2", link[1]>>
        b == <<"l1", link[2]>>
    IN  IF DictHas(d, a)
        THEN [p \in 1..Len(d) |->
                IF d[p].k = a THEN [k |-> a, v |-> d[p].v \cup {b}] ELSE d[p]]
        ELSE Append(d, [k |-> a, v |-> {b}])

\* The body of the loop of lines 51-53 for the link <<i, j>>.
AddLink(d, link) ==
    LET a == <<"l2", link[1]>>
        b == <<"l1", link[2]>>
    IN  DictAdd(DictAdd(d, a, b), b, a)

\* g[(side, idx)] read in line 67; every node popped is a key of g.
Nbrs(d, node) == IF DictHas(d, node) THEN DictGet(d, node) ELSE {}

\* The order in which line 67 iterates a set of nodes.  Python leaves it
\* unspecified; rev picks one of two opposite orders.
NodeLess(a, b) ==
    \/ a[1] = "l2" /\ b[1] = "l1"
    \/ a[1] = b[1] /\ a[2] < b[2]

RECURSIVE IterNodes(_, _)
IterNodes(S, rev) ==
    IF S = {} THEN <<>>
    ELSE LET first == CHOOSE x \in S : \A y \in S \ {x} :
                          IF rev THEN NodeLess(y, x) ELSE NodeLess(x, y)
         IN  <<first>> \o IterNodes(S \ {first}, rev)

\* The while loop of lines 64-70 from the queue q on.
RECURSIVE Bfs(_, _, _, _, _, _)
Bfs(d, q, sn, c2, c1, rev) ==
    IF q = <<>> THEN [seen |-> sn, comp_l2 |-> c2, comp_l1 |-> c1]
    ELSE LET side == Head(q)[1]
             idx  == Head(q)[2]
             new  == Nbrs(d, Head(q)) \ sn
         IN  Bfs(d, Tail(q) \o IterNodes(new, rev), sn \cup new,
                 IF side = "l2" THEN c2 \cup {idx} ELSE c2,
                 IF side = "l2" THEN c1 ELSE c1 \cup {idx},
                 rev)

\* Lines 61-71 for the unvisited key node: the component and its group.
Component(d, node, sn, rev) ==
    LET r == Bfs(d, <<node>>, sn \cup {node}, {}, {}, rev)
    IN  [seen  |-> r.seen,
         group |-> [l2 |-> sorted(r.comp_l2), l1 |-> sorted(r.comp_l1)]]

\* Line 74 and line 75.
Linked(gs, side) == UNION {Range(gs[p][side]) : p \in 1..Len(gs)}

\* Mutant of FillL2: the singleton is put first in the list.
FillL2First(gs, linked, idx) ==
    IF idx \notin linked THEN <<[l2 |-> <<idx>>, l1 |-> <<>>]>> \o gs ELSE gs

\* Mutant of FillL1: the index is put on the l2 side.
FillL1WrongSide(gs, linked, idx) ==
    IF idx \notin linked THEN Append(gs, [l2 |-> <<idx>>, l1 |-> <<>>]) ELSE gs

\* The body of the loops of lines 76-78 and 79-81.
FillL2(gs, linked, idx) ==
    IF idx \notin linked THEN Append(gs, [l2 |-> <<idx>>, l1 |-> <<>>]) ELSE gs

FillL1(gs, linked, idx) ==
    IF idx \notin linked THEN Append(gs, [l2 |-> <<>>, l1 |-> <<idx>>]) ELSE gs

\* Lines 49-53 as a function of the links: the graph after the loop.
RECURSIVE GraphOf(_)
GraphOf(ps) ==
    IF ps = <<>> THEN <<>>
    ELSE AddLink(GraphOf(SubSeq(ps, 1, Len(ps) - 1)), ps[Len(ps)])

\* Lines 55-71 as a function of the graph: the loop from key number at on.
RECURSIVE ComponentsOf(_, _, _, _)
ComponentsOf(d, at, sn, gs) ==
    IF at > Len(d) THEN gs
    ELSE IF d[at].k \in sn THEN ComponentsOf(d, at + 1, sn, gs)
    ELSE LET c == Component(d, d[at].k, sn, FALSE)
         IN  ComponentsOf(d, at + 1, c.seen, Append(gs, c.group))

\* Lines 76-78 and 79-81 as functions: the loops from index idx on.
RECURSIVE FillAllL2(_, _, _, _)
FillAllL2(gs, linked, idx, len) ==
    IF idx >= len THEN gs
    ELSE FillAllL2(FillL2(gs, linked, idx), linked, idx + 1, len)

RECURSIVE FillAllL1(_, _, _, _)
FillAllL1(gs, linked, idx, len) ==
    IF idx >= len THEN gs
    ELSE FillAllL1(FillL1(gs, linked, idx), linked, idx + 1, len)

\* Lines 49-83 as a function of the selected links and the two lengths.
align_groups(ps, la, lb) ==
    LET comps == ComponentsOf(GraphOf(ps), 1, {}, <<>>)
    IN  FillAllL1(FillAllL2(comps, Linked(comps, "l2"), 0, la),
                  Linked(comps, "l1"), 0, lb)


----------------------------------------------------------------------------
(* Inputs.                                                                 *)

Methods == {"itermax", "mwmf", "inter", "fwd", "rev"}

Tokens(len) == [p \in 1..len |-> "w"]

RECURSIVE SeqsUpTo(_, _)
SeqsUpTo(S, len) ==
    IF len = 0 THEN {<<>>}
    ELSE LET shorter == SeqsUpTo(S, len - 1)
         IN  shorter \cup {Append(s, x) : s \in {t \in shorter : Len(t) = len - 1}, x \in S}

\* The links an aligner may report for la source and lb target tokens.
ValidLinks(la, lb) == (0..(la - 1)) \X (0..(lb - 1))

\* Links of a collaborator that does not keep indices in range.
AnyLinks(la, lb) == ((-1)..la) \X ((-1)..lb)

\* Orders of distinct method names.
KeyOrders ==
    {ks \in SeqsUpTo(Methods, MaxMethods) :
        \A p, q \in 1..Len(ks) : p # q => ks[p] # ks[q]}

\* The dict with the keys ks, in this order, and the values vs.
MakeDict(ks, vs) == [p \in 1..Len(ks) |-> [k |-> ks[p], v |-> vs[p]]]

\* The values of an answer with the keys ks: an answer under one method
\* carries up to most links, an answer under several methods carries no link
\* or one link under each.
AnswerValues(ks, links, most) ==
    [1..Len(ks) -> SeqsUpTo(links, IF Len(ks) = 1 THEN most ELSE 1)]

----------------------------------------------------------------------------
(* align_tokens as a state machine.                                        *)

TransIdle ==
    /\ tpc = "idle" /\ texts = <<>> /\ res_text = <<>> /\ out = <<>> /\ l1 = <<>>

Init ==
    /\ pc = "guard"
    /\ outcome = "running"
    /\ \E la, lb \in 0..MaxLen :
         /\ src_tokens = Tokens(la)
         /\ tgt_tokens = Tokens(lb)
    /\ al = <<>> /\ pairs = <<>> /\ n = 0 /\ g = <<>> /\ seen = {}
    /\ groups = <<>> /\ k = 0 /\ linked_l2 = {} /\ linked_l1 = {}
    /\ i = 0 /\ j = 0 /\ result = <<>>
    /\ TransIdle

\* Lines 38-39.
Guard ==
    /\ pc = "guard"
    /\ IF src_tokens = <<>> \/ tgt_tokens = <<>>
       THEN /\ result' = <<>>
            /\ outcome' = "returned"
            /\ pc' = "done"
       ELSE /\ pc' = "align"
            /\ UNCHANGED <<result, outcome>>
    /\ UNCHANGED <<src_tokens, tgt_tokens, al, pairs, n, g, seen, groups, k,
                   linked_l2, linked_l1, i, j>>
    /\ UNCHANGED transVars

\* Lines 41-43: the aligner answers.
GetWordAligns ==
    /\ pc = "align"
    /\ \E ks \in KeyOrders :
         \E vs \in AnswerValues(ks, ValidLinks(Len(src_tokens), Len(tgt_tokens)), MaxLinks) :
            al' = MakeDict(ks, vs)
    /\ pc' = "select"
    /\ UNCHANGED <<outcome, src_tokens, tgt_tokens, pairs, n, g, seen, groups,
                   k, linked_l2, linked_l1, i, j, result>>
    /\ UNCHANGED transVars

\* Lines 41-43 with an aligner that does not keep its indices in range.
GetWordAlignsUnchecked ==
    /\ pc = "align"
    /\ \E ks \in {o \in KeyOrders : Len(o) = 1} :
         \E vs \in AnswerValues(ks, AnyLinks(Len(src_tokens), Len(tgt_tokens)), MaxBadLinks) :
            al' = MakeDict(ks, vs)
    /\ pc' = "select"
    /\ UNCHANGED <<outcome, src_tokens, tgt_tokens, pairs, n, g, seen, groups,
                   k, linked_l2, linked_l1, i, j, result>>
    /\ UNCHANGED transVars

\* Lines 41-43: the aligner raises; align_tokens catches nothing.
AlignerRaises ==
    /\ pc = "align"
    /\ outcome' = "raised"
    /\ pc' = "done"
    /\ UNCHANGED <<src_tokens, tgt_tokens, al, pairs, n, g, seen, groups, k,
                   linked_l2, linked_l1, i, j, result>>
    /\ UNCHANGED transVars

\* Line 44.
FirstPresent ==
    /\ pc = "select"
    /\ pairs' = first_present(al, PREFERENCE)
    /\ pc' = "build"
    /\ UNCHANGED <<outcome, src_tokens, tgt_tokens, al, n, g, seen, groups, k,
                   linked_l2, linked_l1, i, j, result>>
    /\ UNCHANGED transVars

\* Lines 51-53, one link per step.  al is not read after line 44.
BuildGraph ==
    /\ pc = "build"
    /\ al' = <<>>
    /\ IF n < Len(pairs)
       THEN /\ g' = AddLink(g, pairs[n + 1])
            /\ n' = n + 1
            /\ pc' = "build"
       ELSE /\ pc' = "components"
            /\ UNCHANGED <<g, n>>
    /\ UNCHANGED <<outcome, src_tokens, tgt_tokens, pairs, seen, groups, k,
                   linked_l2, linked_l1, i, j, result>>
    /\ UNCHANGED transVars

\* Lines 58-71, one key of g per step.
Components ==
    /\ pc = "components"
    /\ IF k < Len(g)
       THEN LET node == DictKeys(g)[k + 1]
            IN  /\ k' = k + 1
                /\ pc' = "components"
                /\ IF node \in seen
                   THEN UNCHANGED <<seen, groups>>
                   ELSE \E rev \in BOOLEAN :
                          LET c == Component(g, node, seen, rev)
                          IN  /\ seen' = c.seen
                              /\ groups' = Append(groups, c.group)
       ELSE /\ pc' = "linked"
            /\ UNCHANGED <<k, seen, groups>>
    /\ UNCHANGED <<outcome, src_tokens, tgt_tokens, al, pairs, n, g,
                   linked_l2, linked_l1, i, j, result>>
    /\ UNCHANGED transVars

\* Lines 74-75.
LinkedSets ==
    /\ pc = "linked"
    /\ linked_l2' = Linked(groups, "l2")
    /\ linked_l1' = Linked(groups, "l1")
    /\ pc' = "fill_l2"
    /\ UNCHANGED <<outcome, src_tokens, tgt_tokens, al, pairs, n, g, seen,
                   groups, k, i, j, result>>
    /\ UNCHANGED transVars

\* Lines 76-78, one index per step.
SingletonsL2 ==
    /\ pc = "fill_l2"
    /\ IF i < Len(src_tokens)
       THEN /\ groups' = FillL2(groups, linked_l2, i)
            /\ i' = i + 1
            /\ pc' = "fill_l2"
       ELSE /\ pc' = "fill_l1"
            /\ UNCHANGED <<groups, i>>
    /\ UNCHANGED <<outcome, src_tokens, tgt_tokens, al, pairs, n, g, seen, k,
                   linked_l2, linked_l1, j, result>>
    /\ UNCHANGED transVars

\* Lines 79-81, one index per step.
SingletonsL1 ==
    /\ pc = "fill_l1"
    /\ IF j < Len(tgt_tokens)
       THEN /\ groups' = FillL1(groups, linked_l1, j)
            /\ j' = j + 1
            /\ pc' = "fill_l1"
       ELSE /\ pc' = "return"
            /\ UNCHANGED <<groups, j>>
    /\ UNCHANGED <<outcome, src_tokens, tgt_tokens, al, pairs, n, g, seen, k,
                   linked_l2, linked_l1, i, result>>
    /\ UNCHANGED transVars

\* Line 83.
Return ==
    /\ pc = "return"
    /\ result' = groups
    /\ outcome' = "returned"
    /\ pc' = "done"
    /\ UNCHANGED <<src_tokens, tgt_tokens, al, pairs, n, g, seen, groups, k,
                   linked_l2, linked_l1, i, j>>
    /\ UNCHANGED transVars

Grouping ==
    \/ FirstPresent
    \/ BuildGraph
    \/ Components
    \/ LinkedSets
    \/ SingletonsL2
    \/ SingletonsL1
    \/ Return

Next ==
    \/ Guard
    \/ GetWordAligns
    \/ AlignerRaises
    \/ Grouping

Spec == Init /\ [][Next]_vars

NextUnchecked ==
    \/ Guard
    \/ GetWordAlignsUnchecked
    \/ AlignerRaises
    \/ Grouping

SpecUnchecked == Init /\ [][NextUnchecked]_vars

----------------------------------------------------------------------------
(* api/main.py: translate_lines and get_lyrics_with_translation.  A string *)
(* is the sequence of its characters.                                      *)

\* Line 121: the record separator symbol, which is no line boundary.
sentinel == "RS"

\* The characters of the model: a letter, the sentinel, and the line
\* boundaries "\n" and "\r" ("\r\n" is one boundary).  The other line
\* boundaries of str.splitlines each split as "\n" does.
Chars == {"a", sentinel, "LF", "CR"}

LineBreaks == {"LF", "CR"}

\* Line 60: Line.l1 defaults to None.
None == <<"None">>

\* str.split(sep) for the one-character separator sep: always at least one
\* piece, one more than the occurrences of sep.
RECURSIVE split(_, _)
split(s, sep) ==
    LET at == {p \in 1..Len(s) : s[p] = sep}
    IN  IF at = {} THEN <<s>>
        ELSE <<SubSeq(s, 1, Min(at) - 1)>> \o split(SubSeq(s, Min(at) + 1, Len(s)), sep)

\* str.splitlines(): the lines without their boundaries; no line for the
\* empty string and none after a final boundary.
RECURSIVE splitlines(_)
splitlines(s) ==
    LET at == {p \in 1..Len(s) : s[p] \in LineBreaks}
    IN  IF s = <<>> THEN <<>>
        ELSE IF at = {} THEN <<s>>
        ELSE LET p == Min(at)
                 w == IF s[p] = "CR" /\ p < Len(s) /\ s[p + 1] = "LF" THEN 2 ELSE 1
             IN  <<SubSeq(s, 1, p - 1)>> \o splitlines(SubSeq(s, p + w, Len(s)))

\* Mutant of Pad: nothing is added.
PadNothing(o, count) == o

\* Line 129: o += [""] * count; a count below one adds nothing.
Pad(o, count) == o \o [p \in 1..count |-> <<>>]

\* Line 130: o[:count] for count >= 0.
Truncate(o, count) == SubSeq(o, 1, IF count < Len(o) THEN count ELSE Len(o))

\* Lines 127-130.
Fallback(o, text, count) ==
    IF Len(o) # count
    THEN Truncate(Pad(splitlines(text), count - Len(splitlines(text))), count)
    ELSE o

\* Lines 164-165: zip stops at the shorter of the two lists; cur holds the
\* l1 of every line before the loop.
PairTranslations(cur, tr) ==
    [p \in 1..Len(cur) |-> IF p <= Len(tr) THEN tr[p] ELSE cur[p]]

InitTranslate ==
    /\ pc = "idle" /\ outcome = "running"
    /\ src_tokens = <<>> /\ tgt_tokens = <<>>
    /\ al = <<>> /\ pairs = <<>> /\ n = 0 /\ g = <<>> /\ seen = {}
    /\ groups = <<>> /\ k = 0 /\ linked_l2 = {} /\ linked_l1 = {}
    /\ i = 0 /\ j = 0 /\ result = <<>>
    /\ tpc = "translate"
    /\ \E count \in 0..MaxLines : texts = [p \in 1..count |-> <<"a">>]
    /\ res_text = <<>> /\ out = <<>>
    /\ l1 = [p \in 1..Len(texts) |-> None]

\* Lines 122-124: the service answers the joined blob with any text.
Translate ==
    /\ tpc = "translate"
    /\ res_text' \in SeqsUpTo(Chars, MaxText)
    /\ tpc' = "split"
    /\ UNCHANGED <<texts, out, l1>>
    /\ UNCHANGED alignVars

\* Lines 123-124 raise; lines 162-163 answer HTTP 502.
TranslateRaises ==
    /\ tpc = "translate"
    /\ tpc' = "http502"
    /\ UNCHANGED <<texts, res_text, out, l1>>
    /\ UNCHANGED alignVars

\* Line 125.
SplitSentinel ==
    /\ tpc = "split"
    /\ out' = split(res_text, sentinel)
    /\ tpc' = "fallback"
    /\ UNCHANGED <<texts, res_text, l1>>
    /\ UNCHANGED alignVars

\* Lines 127-131.
ReturnLines ==
    /\ tpc = "fallback"
    /\ out' = Fallback(out, res_text, Len(texts))
    /\ tpc' = "returned"
    /\ UNCHANGED <<texts, res_text, l1>>
    /\ UNCHANGED alignVars

\* Lines 164-166.
PairLines ==
    /\ tpc = "returned"
    /\ l1' = PairTranslations(l1, out)
    /\ tpc' = "done"
    /\ UNCHANGED <<texts, res_text, out>>
    /\ UNCHANGED alignVars

NextTranslate ==
    \/ Translate
    \/ TranslateRaises
    \/ SplitSentinel
    \/ ReturnLines
    \/ PairLines

SpecTranslate == InitTranslate /\ [][NextTranslate]_vars

----------------------------------------------------------------------------
(* Properties.                                                             *)

lenA == Len(src_tokens)
lenB == Len(tgt_tokens)

\* align_tokens has returned its list.
Returned == pc = "done" /\ outcome = "returned"

\* Line 44 has just run: al and pairs are both at hand.
Selected == pc = "build" /\ n = 0

ANodes == {<<"l2", x>> : x \in 0..(lenA - 1)}
BNodes == {<<"l1", y>> : y \in 0..(lenB - 1)}

\* The two ends of a link, as nodes.
Ends(link) == {<<"l2", link[1]>>, <<"l1", link[2]>>}

\* The nodes joined to a node of S by a path of links, S included.
RECURSIVE Reach(_)
Reach(S) ==
    LET T == S \cup UNION {Ends(l) : l \in {m \in Range(pairs) : Ends(m) \cap S # {}}}
    IN  IF T = S THEN S ELSE Reach(T)

\* Two different nodes joined by a path of one or more links.
Connected(a, b) == b \in Reach({a})

InGroup(node, grp) == node[2] \in Range(grp[node[1]])

InSameGroup(a, b) ==
    \E p \in 1..Len(result) : InGroup(a, result[p]) /\ InGroup(b, result[p])

IsLinkedGroup(grp) == grp.l2 # <<>> /\ grp.l1 # <<>>
IsASingleton(grp) == Len(grp.l2) = 1 /\ grp.l1 = <<>>
IsBSingleton(grp) == grp.l2 = <<>> /\ Len(grp.l1) = 1

StrictlyAscending(s) == \A p, q \in 1..Len(s) : p < q => s[p] < s[q]

InRange(link) ==
    /\ 0 <= link[1] /\ link[1] < lenA
    /\ 0 <= link[2] /\ link[2] < lenB

\* C1: whenever align_tokens returns, its groups partition both index
\* ranges: the l2 lists together hold exactly 0..lenA-1, the l1 lists
\* together hold exactly 0..lenB-1, and no index is in two groups.
C1_CoveragePartition ==
    Returned =>
        /\ UNION {Range(result[p].l2) : p \in 1..Len(result)} = 0..(lenA - 1)
        /\ UNION {Range(result[p].l1) : p \in 1..Len(result)} = 0..(lenB - 1)
        /\ \A p, q \in 1..Len(result) :
              p # q => /\ Range(result[p].l2) \cap Range(result[q].l2) = {}
                       /\ Range(result[p].l1) \cap Range(result[q].l1) = {}

\* The partition of C1 for two non-empty token sequences.
CoverageWhenBothNonEmpty ==
    (Returned /\ lenA > 0 /\ lenB > 0) => C1_CoveragePartition

\* C2: two different token nodes are in the same returned group exactly
\* when a path of links joins them; the links {(0,0),(1,0)} give the group
\* ({0,1},{0}) and the chain {(0,0),(1,0),(1,1)} gives ({0,1},{0,1}), each
\* as the only group that is not a singleton.
C2_MaximalMerging ==
    Returned =>
        /\ \A a, b \in ANodes \cup BNodes :
              a # b => (InSameGroup(a, b) <=> Connected(a, b))
        /\ Range(pairs) = {<<0, 0>>, <<1, 0>>} =>
              /\ result[1] = [l2 |-> <<0, 1>>, l1 |-> <<0>>]
              /\ \A p \in 2..Len(result) : ~IsLinkedGroup(result[p])
        /\ Range(pairs) = {<<0, 0>>, <<1, 0>>, <<1, 1>>} =>
              /\ result[1] = [l2 |-> <<0, 1>>, l1 |-> <<0, 1>>]
              /\ \A p \in 2..Len(result) : ~IsLinkedGroup(result[p])

\* A run over the chain (0,0), (1,0), (1,1) has returned.
C2_Witness ==
    /\ Returned
    /\ pairs = <<<<0, 0>>, <<1, 0>>, <<1, 1>>>>
    /\ Len(result) = 1

\* C3: with exactly one side empty, align_tokens returns one singleton
\* group for every index of the other side; with both sides empty it
\* returns no group.
C3_EmptySideSingletons ==
    (Returned /\ (lenA = 0 \/ lenB = 0)) =>
        /\ Len(result) = lenA + lenB
        /\ \A x \in 0..(lenA - 1) :
              \E p \in 1..Len(result) : result[p] = [l2 |-> <<x>>, l1 |-> <<>>]
        /\ \A y \in 0..(lenB - 1) :
              \E p \in 1..Len(result) : result[p] = [l2 |-> <<>>, l1 |-> <<y>>]

\* C4: a link with an index out of range ends align_tokens in an error with
\* no groups returned, and no returned group holds an index out of range.
C4_InvalidIndexRejected ==
    /\ (pc = "done" /\ \E l \in Range(pairs) : ~InRange(l)) =>
          (outcome = "raised" /\ result = <<>>)
    /\ Returned =>
          \A p \in 1..Len(result) :
              /\ Range(result[p].l2) \subseteq 0..(lenA - 1)
              /\ Range(result[p].l1) \subseteq 0..(lenB - 1)

\* The first preferred name that is a key of al, whatever its value.
FirstPresentName ==
    LET present == {p \in 1..Len(PREFERENCE) : DictHas(al, PREFERENCE[p])}
    IN  IF present = {} THEN "" ELSE PREFERENCE[Min(present)]

\* The values of al that hold links.
NonEmptyCandidates == {al[p].v : p \in {q \in 1..Len(al) : al[q].v # <<>>}}

\* C5 as stated: _first_present returns the links of the first preferred
\* name that is a key of the mapping; with no preferred name among the keys
\* it returns a non-empty candidate when there is one; and it returns the
\* empty set only when the mapping has no non-empty candidate.
C5_FirstPresentKey ==
    Selected =>
        /\ FirstPresentName # "" => pairs = DictGet(al, FirstPresentName)
        /\ (FirstPresentName = "" /\ NonEmptyCandidates # {}) =>
              pairs \in NonEmptyCandidates
        /\ pairs = <<>> => NonEmptyCandidates = {}

\* The preferred names, in preference order, whose value in al holds links.
PreferredWithLinks ==
    SelectSeq(PREFERENCE, LAMBDA m : DictHas(al, m) /\ DictGet(al, m) # <<>>)

\* C5, amended: _first_present returns the links of the first preferred name
\* that is a key of the mapping with a non-empty link set; when no preferred
\* name has a non-empty link set it returns the first non-empty candidate in
\* the mapping's order; and it returns the empty set exactly when the
\* mapping has no non-empty candidate.
C5_FirstPresentNonEmpty ==
    Selected =>
        /\ PreferredWithLinks # <<>> => pairs = DictGet(al, Head(PreferredWithLinks))
        /\ PreferredWithLinks = <<>> =>
              \A p \in 1..Len(al) :
                 (al[p].v # <<>> /\ \A q \in 1..(p - 1) : al[q].v = <<>>) =>
                     pairs = al[p].v
        /\ pairs = <<>> <=> NonEmptyCandidates = {}

\* itermax is a key with no links and the links of mwmf were selected.
C5_Witness ==
    /\ Selected
    /\ DictHas(al, "itermax") /\ DictGet(al, "itermax") = <<>>
    /\ DictHas(al, "mwmf") /\ DictGet(al, "mwmf") # <<>>
    /\ pairs = DictGet(al, "mwmf")

\* C6: with both sides non-empty and no link selected, align_tokens returns
\* lenA + lenB groups: ({i},{}) for i = 0..lenA-1, then ({},{j}) for
\* j = 0..lenB-1.
C6_NoLinksAllSingletons ==
    (Returned /\ lenA > 0 /\ lenB > 0 /\ pairs = <<>>) =>
        result = [p \in 1..(lenA + lenB) |->
                    IF p <= lenA THEN [l2 |-> <<p - 1>>, l1 |-> <<>>]
                    ELSE [l2 |-> <<>>, l1 |-> <<p - lenA - 1>>]]

\* Two tokens on each side, no link, four groups returned.
C6_Witness ==
    /\ Returned
    /\ lenA = 2 /\ lenB = 2 /\ pairs = <<>>
    /\ Len(result) = 4

\* The links of ps without the repetitions of earlier links.
RECURSIVE Dedup(_)
Dedup(ps) ==
    IF ps = <<>> THEN <<>>
    ELSE LET front == SubSeq(ps, 1, Len(ps) - 1)
             last  == ps[Len(ps)]
         IN  IF last \in Range(front) THEN Dedup(front)
             ELSE Append(Dedup(front), last)

\* C7: the list returned for a sequence of links is the list returned for
\* the same sequence with every repetition of an earlier link removed.
C7_DuplicateLinksIdempotent ==
    (Returned /\ lenA > 0 /\ lenB > 0) =>
        result = align_groups(Dedup(pairs), lenA, lenB)

\* A run over three links, the third repeating the first, has returned.
C7_Witness ==
    /\ Returned
    /\ Len(pairs) = 3
    /\ pairs[3] = pairs[1] /\ pairs[2] # pairs[1]
    /\ Len(Dedup(pairs)) = 2

\* C8: no returned group has both sides empty; every group has an index on
\* each side or exactly one index in all; and both lists of every group are
\* strictly ascending.
C8_GroupShape ==
    Returned =>
        \A p \in 1..Len(result) :
            /\ ~(result[p].l2 = <<>> /\ result[p].l1 = <<>>)
            /\ \/ IsLinkedGroup(result[p])
               \/ Len(result[p].l2) + Len(result[p].l1) = 1
            /\ StrictlyAscending(result[p].l2)
            /\ StrictlyAscending(result[p].l1)

\* A group with two indices on each side was returned.
C8_Witness ==
    /\ Returned
    /\ \E p \in 1..Len(result) : Len(result[p].l2) = 2 /\ Len(result[p].l1) = 2

\* C9: in the list built and returned every linked group precedes every
\* singleton, every A-singleton precedes every B-singleton, and the
\* A-singletons and the B-singletons are each in ascending index order.
C9_EmissionOrder ==
    \A p, q \in 1..Len(groups) :
        p < q =>
            /\ ~IsLinkedGroup(groups[p]) => ~IsLinkedGroup(groups[q])
            /\ IsBSingleton(groups[p]) => ~IsASingleton(groups[q])
            /\ (IsASingleton(groups[p]) /\ IsASingleton(groups[q])) =>
                  groups[p].l2[1] < groups[q].l2[1]
            /\ (IsBSingleton(groups[p]) /\ IsBSingleton(groups[q])) =>
                  groups[p].l1[1] < groups[q].l1[1]

\* A linked group, an A-singleton and a B-singleton were returned.
C9_Witness ==
    /\ Returned
    /\ result = groups
    /\ \E p, q, r \in 1..Len(result) :
          IsLinkedGroup(result[p]) /\ IsASingleton(result[q]) /\ IsBSingleton(result[r])

\* C10: whatever text the service returns, translate_lines returns exactly
\* len(texts) lines, and the pairing gives every lyric line the translation
\* at its own position.
C10_LengthPreserved ==
    /\ tpc \in {"returned", "done"} => Len(out) = Len(texts)
    /\ tpc = "done" =>
          /\ Len(l1) = Len(texts)
          /\ \A p \in 1..Len(l1) : l1[p] # None /\ l1[p] = out[p]

\* Three lines were sent, the answer kept no sentinel and held two lines,
\* and the pairing is done.
C10_Witness ==
    /\ tpc = "done"
    /\ Len(texts) = 3
    /\ Len(split(res_text, sentinel)) = 1
    /\ Len(splitlines(res_text)) = 2

====
